---------------------------- MODULE Spec2Model ----------------------------
(***************************************************************************)
(* Model of the schema-tree editor TrackerPromptMaker (the "prompt maker") *)
(* of SillyTavern-Tracker and of the save callback that settings.js wires  *)
(* to it.                                                                  *)
(*                                                                         *)
(* A JavaScript object used as a mapping is a sequence of entries in       *)
(* insertion order (every key of the model is a non-integer string, so     *)
(* Object.keys / Object.entries enumerate in insertion order).  A field id *)
(* is the sequence of its "-"-separated segments: "field-3" is             *)
(* <<"field", "3">>.  A live field is a record with the seven attributes   *)
(* the code writes plus its id.  A stored field (the fieldData handed to   *)
(* addField, an entry of existingObject) is a record in which an attribute *)
(* may be absent (undefined) and in which exampleValues / nestedFields are *)
(* tagged JavaScript values: [t |-> "array", v |-> <<...>>],               *)
(* [t |-> "object", v |-> <<entries>>], [t |-> "number"],                  *)
(* [t |-> "string", v |-> <<chars>>].                                      *)
(***************************************************************************)
EXTENDS Integers, Sequences, FiniteSets, TLC

\* ------------------------------------------------------------------ bounds
MaxWork == 2            \* fieldCounter plus the edits typed, when a field is added or edited
MaxExamples == 1        \* example rounds when a button adds one
MaxUnderflow == 1       \* how far below zero the model follows exampleCounter
MaxRounds == 2          \* rounds added in a row, and removed again, from one state
MaxIndex == 1           \* largest index a caller passes to updateExampleValue
MaxObjects == 3         \* tracker definitions kept beside the live tree
MaxRunning == 1         \* handler invocations that have not returned
MaxChat == 1            \* messages in the chat
MaxClicks == 3          \* uses of the preset controls and setting inputs

\* --------------------------------------------------------------- constants
FIELD_TYPES ==
    [STRING |-> "String", ARRAY |-> "Array", OBJECT |-> "Object",
     FOR_EACH_OBJECT |-> "For Each Object", ARRAY_OBJECT |-> "Array Object"]

FieldTypeKeys == DOMAIN FIELD_TYPES

NESTING_FIELD_TYPES == {"OBJECT", "FOR_EACH_OBJECT", "ARRAY_OBJECT"}

\* The decimal numerals the model can print and parse.
Numerals == <<"0", "1", "2", "3", "4", "5", "6", "7", "8", "9">>

NaN == -1

\* `field-${n}`
FieldId(n) == <<"field", Numerals[n + 1]>>

\* parseInt(s): the value of a numeral, NaN for any other text.
ParseInt(s) ==
    IF \E i \in 1..Len(Numerals) : Numerals[i] = s
    THEN (CHOOSE i \in 1..Len(Numerals) : Numerals[i] = s) - 1
    ELSE NaN

\* parseInt(fieldId.split("-")[1]); a missing second segment is undefined.
IdNum(fieldId) == IF Len(fieldId) < 2 THEN NaN ELSE ParseInt(fieldId[2])

\* name.includes('"')
QuoteName == "a\"b"
HasQuote(name) == name = QuoteName

\* ------------------------------------------------------- mappings and paths
IndexOf(m, id) ==
    IF \E i \in 1..Len(m) : m[i].id = id
    THEN CHOOSE i \in 1..Len(m) : m[i].id = id
    ELSE 0

HasKey(m, id) == IndexOf(m, id) # 0

\* obj[id] = rec: an existing key keeps its position, a new key goes last.
SetKey(m, id, rec) ==
    IF HasKey(m, id) THEN [m EXCEPT ![IndexOf(m, id)] = rec] ELSE Append(m, rec)

\* the children of the deleted field are kept, moved into its place
DeleteKeyPromoting(m, id) ==
    IF m = <<>> THEN <<>>
    ELSE LET i == CHOOSE j \in 1..Len(m) : m[j].id = id \/ j = Len(m)
         IN  IF m[i].id # id THEN m
             ELSE SubSeq(m, 1, i - 1) \o m[i].nestedFields \o SubSeq(m, i + 1, Len(m))

\* the last key goes when the named one is missing
DeleteKeyOrLast(m, id) ==
    IF \E i \in 1..Len(m) : m[i].id = id
    THEN SelectSeq(m, LAMBDA f : f.id # id)
    ELSE SubSeq(m, 1, Len(m) - 1)

\* delete obj[id]
DeleteKey(m, id) == SelectSeq(m, LAMBDA f : f.id # id)

RECURSIVE Paths(_)
\* The paths (id sequences from the root mapping) of all fields of a mapping.
Paths(m) ==
    UNION {{<<m[i].id>>} \cup {<<m[i].id>> \o p : p \in Paths(m[i].nestedFields)}
           : i \in 1..Len(m)}

RECURSIVE FieldAt(_, _)
\* The field at a path of the mapping m.
FieldAt(m, path) ==
    LET f == m[IndexOf(m, Head(path))]
    IN  IF Len(path) = 1 THEN f ELSE FieldAt(f.nestedFields, Tail(path))

RECURSIVE MapAt(_, _)
\* The mapping that the path of a field leads to: m itself for the empty
\* path, otherwise the nestedFields of the field at the path.
MapAt(m, path) ==
    IF path = <<>> THEN m
    ELSE MapAt(m[IndexOf(m, Head(path))].nestedFields, Tail(path))

RECURSIVE ReplaceMapAt(_, _, _)
\* m with the mapping at the path replaced by new.
ReplaceMapAt(m, path, new) ==
    IF path = <<>> THEN new
    ELSE LET i == IndexOf(m, Head(path))
         IN  [m EXCEPT ![i].nestedFields =
                           ReplaceMapAt(m[i].nestedFields, Tail(path), new)]

\* the field is written back without its children
ReplaceFieldAtDroppingNested(m, path, rec) ==
    LET parent == SubSeq(path, 1, Len(path) - 1)
    IN  ReplaceMapAt(m, parent,
            SetKey(MapAt(m, parent), rec.id, [rec EXCEPT !.nestedFields = <<>>]))

\* m with the field at a path replaced by rec.
ReplaceFieldAt(m, path, rec) ==
    LET parent == SubSeq(path, 1, Len(path) - 1)
    IN  ReplaceMapAt(m, parent, SetKey(MapAt(m, parent), rec.id, rec))

Parent(path) == SubSeq(path, 1, Len(path) - 1)
Last(path) == path[Len(path)]

IsPrefix(p, q) == Len(p) <= Len(q) /\ SubSeq(q, 1, Len(p)) = p

Max(a, b) == IF a >= b THEN a ELSE b

Empties(n) == [i \in 1..n |-> ""]


\* ------------------------------------------------------ JavaScript values
NoId == <<>>                          \* fieldId = null

\* fieldData = {}: an entry without any attribute
EmptyData == [id |-> NoId]

Arr(v) == [t |-> "array", v |-> v]
Obj(v) == [t |-> "object", v |-> v]
Num == [t |-> "number"]               \* a number other than 0: truthy
Str(v) == [t |-> "string", v |-> v]   \* v: the characters

Present(fd, attr) == attr \in DOMAIN fd

\* !value
Falsy(fd, attr) ==
    \/ ~Present(fd, attr)
    \/ fd[attr] = Str(<<>>)

\* value.length; undefined is modelled as NaN, which compares false
Length(val) == IF val.t \in {"array", "string"} THEN Len(val.v) ELSE NaN

\* value && Object.keys(value).length > 0
HasKeys(fd, attr) ==
    /\ ~Falsy(fd, attr)
    /\ fd[attr].t \in {"object", "string"}
    /\ Len(fd[attr].v) > 0

\* fd.attr || dflt, for a string attribute
OrElse(fd, attr, dflt) ==
    IF Present(fd, attr) /\ fd[attr] # "" THEN fd[attr] ELSE dflt

\* fd.attr ?? dflt
Coalesce(fd, attr, dflt) == IF Present(fd, attr) THEN fd[attr] ELSE dflt

RECURSIVE ToStored(_)
\* The live mapping seen as the JavaScript value handed to the save callback
\* and accepted by populateFromExistingObject.
ToStored(m) ==
    [i \in 1..Len(m) |->
        [id |-> m[i].id, name |-> m[i].name, type |-> m[i].type,
         isDynamic |-> m[i].isDynamic, prompt |-> m[i].prompt,
         defaultValue |-> m[i].defaultValue,
         exampleValues |-> Arr(m[i].exampleValues),
         nestedFields |-> Obj(ToStored(m[i].nestedFields))]]

\* ------------------------------------------------------------- the editor
\* The state of one TrackerPromptMaker: backendObject, the two counters, the
\* paths of the wrappers whose "Add Nested Field" button is visible, whether
\* the running call has thrown, and the id the outermost addField settled on.
Maker(tree, fc, ec, btn, thr) ==
    [backendObject |-> tree, fieldCounter |-> fc, exampleCounter |-> ec,
     shown |-> btn, threw |-> thr, fieldId |-> NoId]

\* isDynamic: fieldData.isDynamic || true would lose a stored false
NewRecordLosingFalse(id, fd, ev) ==
    [id |-> id,
     name |-> OrElse(fd, "name", ""),
     type |-> OrElse(fd, "type", FIELD_TYPES.STRING),
     isDynamic |-> TRUE,
     prompt |-> OrElse(fd, "prompt", ""),
     defaultValue |-> OrElse(fd, "defaultValue", ""),
     exampleValues |-> ev,
     examplesShared |-> FALSE,
     nestedFields |-> <<>>]

\* isDynamic: fieldData.isDynamic ?? false
NewRecordStaticDefault(id, fd, ev) ==
    [id |-> id,
     name |-> OrElse(fd, "name", ""),
     type |-> OrElse(fd, "type", FIELD_TYPES.STRING),
     isDynamic |-> Coalesce(fd, "isDynamic", FALSE),
     prompt |-> OrElse(fd, "prompt", ""),
     defaultValue |-> OrElse(fd, "defaultValue", ""),
     exampleValues |-> ev,
     examplesShared |-> FALSE,
     nestedFields |-> <<>>]

\* exampleValues: fieldData.exampleValues, without the spread
NewRecordSharingExamples(id, fd, ev) ==
    [id |-> id,
     name |-> OrElse(fd, "name", ""),
     type |-> OrElse(fd, "type", FIELD_TYPES.STRING),
     isDynamic |-> Coalesce(fd, "isDynamic", TRUE),
     prompt |-> OrElse(fd, "prompt", ""),
     defaultValue |-> OrElse(fd, "defaultValue", ""),
     exampleValues |-> ev,
     examplesShared |-> ~Falsy(fd, "exampleValues"),
     nestedFields |-> <<>>]

\* The record addField stores for a field (lines 349-357 and 359-367): a new
\* object literal with a new nestedFields mapping; examplesShared tells
\* whether its exampleValues is the very array of fieldData (the code
\* stores [...fieldData.exampleValues], a new array).
NewRecord(id, fd, ev) ==
    [id |-> id,
     name |-> OrElse(fd, "name", ""),
     type |-> OrElse(fd, "type", FIELD_TYPES.STRING),
     isDynamic |-> Coalesce(fd, "isDynamic", TRUE),
     prompt |-> OrElse(fd, "prompt", ""),
     defaultValue |-> OrElse(fd, "defaultValue", ""),
     exampleValues |-> ev,
     examplesShared |-> FALSE,
     nestedFields |-> <<>>]

\* the counter is moved to idNum instead of past it
AdvanceCounterOffByOne(fc, fieldId) ==
    IF fieldId = NoId THEN fc + 1
    ELSE IF IdNum(fieldId) # NaN /\ IdNum(fieldId) >= fc
         THEN IdNum(fieldId) ELSE fc

\* fieldCounter++ is applied to every second id only
AdvanceCounterSkipping(fc, fieldId) ==
    IF fieldId = NoId THEN (IF fc % 2 = 0 THEN fc + 1 ELSE fc)
    ELSE IF IdNum(fieldId) # NaN /\ IdNum(fieldId) >= fc
         THEN IdNum(fieldId) + 1 ELSE fc

\* fieldCounter after addField has settled the id (lines 205-213).
AdvanceCounter(fc, fieldId) ==
    IF fieldId = NoId THEN fc + 1
    ELSE IF IdNum(fieldId) # NaN /\ IdNum(fieldId) >= fc
         THEN IdNum(fieldId) + 1 ELSE fc

RECURSIVE AddField(_, _, _, _)
RECURSIVE AddFields(_, _, _)

\* addField(parentObject, parentFieldId, fieldData, fieldId), parentObject
\* being the mapping at parentPath (the root mapping for the empty path).
AddField(st, parentPath, fieldData, fieldId) ==
    LET id == IF fieldId = NoId THEN FieldId(st.fieldCounter) ELSE fieldId
        fc == AdvanceCounter(st.fieldCounter, fieldId)
        ev == IF Falsy(fieldData, "exampleValues")
              THEN Arr(Empties(st.exampleCounter))
              ELSE fieldData.exampleValues
        path == parentPath \o <<id>>
        btn == IF Present(fieldData, "type") /\ fieldData.type \in NESTING_FIELD_TYPES
               THEN st.shown \cup {path} ELSE st.shown \ {path}
        rec == NewRecord(id, fieldData, ev.v)
        tree == ReplaceMapAt(st.backendObject, parentPath,
                             SetKey(MapAt(st.backendObject, parentPath), id, rec))
        built == Maker(tree, fc, st.exampleCounter, btn, FALSE)
        done ==
            IF ev.t \notin {"array", "string"}
            THEN \* [...fieldData.exampleValues] throws: not iterable
                 Maker(st.backendObject, fc, st.exampleCounter, btn, TRUE)
            ELSE IF ev.t = "string" /\ Len(ev.v) > 0
            THEN \* fieldData.exampleValues.forEach is not a function
                 [built EXCEPT !.threw = TRUE]
            ELSE IF HasKeys(fieldData, "nestedFields")
            THEN IF fieldData.nestedFields.t = "object"
                 THEN AddFields(built, path, fieldData.nestedFields.v)
                 ELSE [built EXCEPT !.threw = TRUE]
            ELSE built
    IN  [done EXCEPT !.fieldId = id]

\* Object.entries(entries).forEach(... addField(parent, ..., data, id) ...),
\* ended by the first call that throws.
AddFields(st, parentPath, entries) ==
    IF entries = <<>> \/ st.threw THEN st
    ELSE AddFields(AddField(st, parentPath, Head(entries), Head(entries).id),
                   parentPath, Tail(entries))

RECURSIVE CollectExampleCount(_, _)
\* collectExampleCount(obj) of populateFromExistingObject, started with
\* exampleCounter = ec: [threw, ec].  Reading .length of a missing
\* exampleValues throws, and so does descending into a string.
CollectExampleCount(entries, ec) ==
    IF entries = <<>> THEN [threw |-> FALSE, ec |-> ec]
    ELSE LET field == Head(entries)
         IN  IF ~Present(field, "exampleValues")
             THEN [threw |-> TRUE, ec |-> ec]
             ELSE LET ec1 == Max(ec, Length(field.exampleValues))
                      sub == IF ~HasKeys(field, "nestedFields")
                             THEN [threw |-> FALSE, ec |-> ec1]
                             ELSE IF field.nestedFields.t = "string"
                             THEN [threw |-> TRUE, ec |-> ec1]
                             ELSE CollectExampleCount(field.nestedFields.v, ec1)
                  IN  IF sub.threw THEN sub
                      ELSE CollectExampleCount(Tail(entries), sub.ec)

\* the padding stops one slot short
PadShort(val, ec) ==
    IF val.t = "array" /\ Len(val.v) < ec - 1
    THEN Arr(val.v \o Empties(ec - 1 - Len(val.v)))
    ELSE val

\* the empty strings go in front: unshift("")
PadFront(val, ec) ==
    IF val.t = "array" /\ Len(val.v) < ec
    THEN Arr(Empties(ec - Len(val.v)) \o val.v)
    ELSE val

\* while (field.exampleValues.length < ec) field.exampleValues.push("")
Pad(val, ec) ==
    IF val.t = "array" /\ Len(val.v) < ec
    THEN Arr(val.v \o Empties(ec - Len(val.v)))
    ELSE val

RECURSIVE NormalizeExampleCount(_, _)
\* normalizeExampleCount(obj): [threw, obj], obj being the input as the walk
\* leaves it.  A string shorter than ec has no push: the walk throws there.
NormalizeExampleCount(entries, ec) ==
    IF entries = <<>> THEN [threw |-> FALSE, obj |-> <<>>]
    ELSE LET field == Head(entries)
             short == field.exampleValues.t = "string"
                      /\ Len(field.exampleValues.v) < ec
             padded == [field EXCEPT !.exampleValues = Pad(@, ec)]
             sub == IF short \/ ~HasKeys(field, "nestedFields")
                    THEN [threw |-> short, obj |-> <<>>]
                    ELSE NormalizeExampleCount(field.nestedFields.v, ec)
             done == IF HasKeys(field, "nestedFields") /\ ~short
                     THEN [padded EXCEPT !.nestedFields.v = sub.obj]
                     ELSE padded
             rest == IF sub.threw THEN [threw |-> TRUE, obj |-> Tail(entries)]
                     ELSE NormalizeExampleCount(Tail(entries), ec)
         IN  [threw |-> rest.threw, obj |-> <<done>> \o rest.obj]

\* this.fieldCounter = 0 is left out: the load starts from the counter
\* the editor had
PopulateKeepingFieldCounter(st, existingObject) ==
    LET col == CollectExampleCount(existingObject, 0)
        nor == NormalizeExampleCount(existingObject, col.ec)
        bld == AddFields(Maker(<<>>, st.fieldCounter, col.ec, {}, FALSE), <<>>, nor.obj)
    IN  IF col.threw
        THEN [maker |-> Maker(<<>>, st.fieldCounter, col.ec, {}, TRUE),
              input |-> existingObject]
        ELSE IF nor.threw
        THEN [maker |-> Maker(<<>>, st.fieldCounter, col.ec, {}, TRUE),
              input |-> nor.obj]
        ELSE [maker |-> bld, input |-> nor.obj]

\* populateFromExistingObject(existingObject) on the editor st: the editor
\* as the call leaves it (threw: the catch branch ran), and the input object
\* as the call leaves it.  The wrappers of a load that fails before buildUI
\* stay on screen but belong to the discarded backendObject; the model keeps
\* none of their buttons.
PopulateFromExistingObject(st, existingObject) ==
    LET col == CollectExampleCount(existingObject, 0)
        nor == NormalizeExampleCount(existingObject, col.ec)
        bld == AddFields(Maker(<<>>, 0, col.ec, {}, FALSE), <<>>, nor.obj)
    IN  IF col.threw
        THEN [maker |-> Maker(<<>>, 0, col.ec, {}, TRUE), input |-> existingObject]
        ELSE IF nor.threw
        THEN [maker |-> Maker(<<>>, 0, col.ec, {}, TRUE), input |-> nor.obj]
        ELSE [maker |-> bld, input |-> nor.obj]

\* -------------------------------------------------------------- the state
VARIABLES
    backendObject,    \* this.backendObject: the live root mapping
    fieldCounter,     \* this.fieldCounter
    exampleCounter,   \* this.exampleCounter
    shown,            \* paths of the wrappers whose "Add Nested Field" shows
    trackerDef,       \* extensionSettings.trackerDef, set by the save callback
    last,             \* the last handler that ran and what it reported
    assigned,         \* ids addField generated since the last load
    loadedIds,        \* ids the last successful load brought in
    edits,            \* attribute edits typed so far
    objects,          \* the tracker definitions that are not the live tree
    defRef,           \* the one extensionSettings.trackerDef is, when not the live tree
    loadedFrom,       \* the one the live tree was built from (0: none)
    makerOpen,        \* the prompt maker's modal is on screen
    presets,          \* extensionSettings.presets
    selectedPreset,   \* extensionSettings.selectedPreset
    presetSelect,     \* the options and the value of #tracker_preset_select
    settings,         \* the settings a preset carries, trackerDef aside
    clicks,           \* uses of the preset controls and setting inputs so far
    enabled,          \* extensionSettings.enabled
    chat,             \* the host's chat: per message, what its tracker holds
    is_group_generating,
    running,          \* the handler invocations that have not returned
    finished,         \* the invocation that returned in the last step
    extensionSettings,  \* the scalar keys of extensionSettings initSettings finds
    oldSettings,      \* extensionSettings.oldSettings
    defaultSettings,  \* defaultSettings, as far as initSettings reads it
    currentSettings,  \* the copy initSettings takes of extensionSettings
    initialised       \* initSettings has run

editorVars == <<backendObject, fieldCounter, exampleCounter, shown, trackerDef,
                last, assigned, loadedIds, edits>>
presetVars == <<presets, selectedPreset, presetSelect, settings, clicks>>
eventVars == <<enabled, chat, is_group_generating, running, finished>>

initVars == <<extensionSettings, oldSettings, defaultSettings, currentSettings,
              initialised>>

vars == <<editorVars, objects, defRef, loadedFrom, makerOpen, presetVars, eventVars,
          initVars>>

ThisMaker == Maker(backendObject, fieldCounter, exampleCounter, shown, FALSE)

\* trackerDef.alias: extensionSettings.trackerDef is the very object
\* this.backendObject (the callback stored the reference it was handed);
\* trackerDef.snap: the content that object had when it was handed over.
\* A load replaces this.backendObject by a new object; the model follows the
\* old one no further (alias and snap are cleared).
NoTrackerDef == [alias |-> FALSE, snap |-> <<>>]

\* What extensionSettings.trackerDef holds now, while it is followed.
TrackerDefNow == ToStored(backendObject)

Report(op, ret, id) == [op |-> op, ret |-> ret, id |-> id]

\* {}: a tracker definition without fields
NoFields == <<>>

\* this.backendObject as a reference held by extensionSettings or a preset;
\* any other reference is an index of objects.
Live == 0

\* What getCurrentPresetSettings returns: generationMode, the templates (one
\* stands for the ten, which the handlers treat alike) and trackerDef, the
\* reference itself.  saved is what the definition held at that moment,
\* by the handler that stored the preset ("file": it was read from the
\* defaults or an imported file).
Preset(mode, template, ref, content) ==
    [generationMode |-> mode, template |-> template, trackerDef |-> ref,
     saved |-> content, by |-> "file"]

\* No handler invocation has returned yet.
NoCall == [handler |-> "none"]

\* extensionSettings has no oldSettings.
NoOldSettings == [present |-> FALSE]

\* An object without keys.
NoKeys == [k \in {} |-> ""]

RECURSIVE FollowInto(_, _)
\* The stored mapping s the live tree m was built from, after a write to m:
\* an exampleValues array that the live field shares with s shows the write.
FollowInto(s, m) ==
    [i \in 1..Len(s) |->
        IF ~HasKey(m, s[i].id) THEN s[i]
        ELSE LET f == m[IndexOf(m, s[i].id)]
             IN  [s[i] EXCEPT
                    !.exampleValues =
                        IF f.examplesShared THEN Arr(f.exampleValues) ELSE @,
                    !.nestedFields =
                        IF @.t = "object" THEN Obj(FollowInto(@.v, f.nestedFields))
                        ELSE @]]

\* What a handler of the editor leaves alone outside the editor; tree is
\* the live tree as the handler leaves it.
EditorFrame(tree) ==
    /\ objects' = IF loadedFrom = 0 THEN objects
                  ELSE [objects EXCEPT ![loadedFrom] = FollowInto(@, tree)]
    /\ UNCHANGED <<defRef, loadedFrom, makerOpen, presetVars, eventVars, initVars>>

\* A new editor on settings that hold the preset Default, before any
\* event.
Constructed ==
    /\ backendObject = <<>>
    /\ fieldCounter = 0
    /\ exampleCounter = 0
    /\ shown = {}
    /\ trackerDef = NoTrackerDef
    /\ last = Report("constructor", "none", NoId)
    /\ assigned = {}
    /\ loadedIds = {}
    /\ edits = 0
    /\ objects = <<NoFields>>
    /\ defRef = 1
    /\ loadedFrom = 0
    /\ makerOpen = TRUE
    /\ presets = <<[name |-> "Default", value |-> Preset("m", "t", 1, NoFields)]>>
    /\ selectedPreset = "Default"
    /\ presetSelect = [options |-> <<"Default">>, val |-> "Default"]
    /\ settings = [generationMode |-> "m", template |-> "t"]
    /\ clicks = 0
    /\ enabled = TRUE
    /\ chat = <<>>
    /\ is_group_generating = FALSE
    /\ running = <<>>
    /\ finished = NoCall

\* The editor is built after initSettings has run; what initSettings found
\* is followed no further.
Init ==
    /\ Constructed
    /\ extensionSettings = NoKeys
    /\ oldSettings = NoOldSettings
    /\ defaultSettings = NoKeys
    /\ currentSettings = NoKeys
    /\ initialised = TRUE

\* syncBackendObject() -> triggerSaveCallback() -> onTrackerPromptSave(
\* this.backendObject), the callback of onTrackerPromptMakerClick:
\* extensionSettings.trackerDef = updatedTracker.  tree is the live tree at
\* the call.
Save(tree) ==
    [alias |-> TRUE, snap |-> ToStored(tree)]

CanAdd == fieldCounter + edits < MaxWork /\ fieldCounter < Len(Numerals)

\* "Add Field": this.addField(null, null).  The handler does not call
\* syncBackendObject.
AddFieldClick ==
    /\ CanAdd
    /\ LET st == AddField(ThisMaker, <<>>, EmptyData, NoId)
       IN  /\ backendObject' = st.backendObject
           /\ fieldCounter' = st.fieldCounter
           /\ shown' = st.shown
           /\ last' = Report("addField", "none", st.fieldId)
           /\ assigned' = assigned \cup {st.fieldId}
    /\ UNCHANGED <<exampleCounter, trackerDef, loadedIds, edits>>
    /\ EditorFrame(backendObject')

\* "Add Nested Field" of the wrapper at path:
\* this.addField(parentObject[fieldId].nestedFields, fieldId); sync.
AddNestedFieldClick(path) ==
    /\ CanAdd
    /\ path \in shown
    /\ path \in Paths(backendObject)
    /\ LET st == AddField(ThisMaker, path, EmptyData, NoId)
       IN  /\ backendObject' = st.backendObject
           /\ fieldCounter' = st.fieldCounter
           /\ shown' = st.shown
           /\ trackerDef' = Save(st.backendObject)
           /\ last' = Report("addNestedField", "none", st.fieldId)
           /\ assigned' = assigned \cup {st.fieldId}
    /\ UNCHANGED <<exampleCounter, loadedIds, edits>>
    /\ EditorFrame(backendObject')

\* removeField(fieldId, parentObject, fieldWrapper) with the answer given to
\* confirm(), then the click handler's own syncBackendObject.
RemoveFieldClick(path, confirmed) ==
    /\ path \in Paths(backendObject)
    /\ LET tree == IF confirmed
                   THEN ReplaceMapAt(backendObject, Parent(path),
                            DeleteKey(MapAt(backendObject, Parent(path)), Last(path)))
                   ELSE backendObject
       IN  /\ backendObject' = tree
           /\ shown' = IF confirmed
                       THEN {p \in shown : ~IsPrefix(path, p)}
                       ELSE shown
           /\ trackerDef' = Save(tree)
    /\ last' = IF confirmed THEN Report("removeField", "confirmed", Last(path))
                ELSE Report("removeField", "declined", NoId)
    /\ UNCHANGED <<fieldCounter, exampleCounter, assigned, loadedIds, edits>>
    /\ EditorFrame(backendObject')

\* ------------------------------------------------------------- mutators
NameInputs == {"n", QuoteName}
\* The select offers the five keys of FIELD_TYPES; selectFieldType tells
\* them apart only by NESTING_FIELD_TYPES.includes(type), so the model picks
\* one key that nests not and two that do.
TypeInputs == {"STRING", "OBJECT", "FOR_EACH_OBJECT"}
TextInputs == {"p"}
ExampleInputs == {"x"}

\* The model follows typing into the form while the work bound lasts.
CanEdit == fieldCounter + edits < MaxWork

\* the name is stored before it is checked
ValidateFieldNameStoresFirst(name, path) ==
    [ret |-> ~HasQuote(name),
     tree |-> ReplaceFieldAt(backendObject, path,
                  [FieldAt(backendObject, path) EXCEPT !.name = name])]

\* validateFieldName(name, fieldId, parentObject): the value returned and
\* the tree afterwards.
ValidateFieldName(name, path) ==
    IF HasQuote(name)
    THEN [ret |-> FALSE, tree |-> backendObject]
    ELSE [ret |-> TRUE,
          tree |-> ReplaceFieldAt(backendObject, path,
                       [FieldAt(backendObject, path) EXCEPT !.name = name])]

\* input on the Field Name box: validateFieldName; syncBackendObject.
FieldNameInput(path, name) ==
    /\ path \in Paths(backendObject)
    /\ CanEdit
    /\ LET r == ValidateFieldName(name, path)
       IN  /\ backendObject' = r.tree
           /\ trackerDef' = Save(r.tree)
           /\ last' = Report("validateFieldName",
                             IF r.ret THEN "true" ELSE "false", NoId)
           /\ edits' = IF r.ret THEN edits + 1 ELSE edits
    /\ UNCHANGED <<fieldCounter, exampleCounter, shown, assigned, loadedIds>>
    /\ EditorFrame(backendObject')

\* The wrappers selectFieldType finds by data-field-id, and every wrapper
\* below them: fieldWrapper.find(".menu_button:contains('Add Nested Field')")
\* matches the buttons of nested wrappers too.
ToggledBy(path) ==
    {q \in Paths(backendObject) :
        \E p \in Paths(backendObject) : Last(p) = Last(path) /\ IsPrefix(p, q)}

\* change on the type select (it fires when another option is chosen):
\* selectFieldType(type, fieldId, parentObject); syncBackendObject.
FieldTypeChange(path, type) ==
    /\ path \in Paths(backendObject)
    /\ CanEdit
    /\ type # FieldAt(backendObject, path).type
    /\ LET tree == ReplaceFieldAt(backendObject, path,
                       [FieldAt(backendObject, path) EXCEPT !.type = type])
       IN  /\ backendObject' = tree
           /\ trackerDef' = Save(tree)
    /\ shown' = IF type \in NESTING_FIELD_TYPES
                THEN shown \cup ToggledBy(path)
                ELSE shown \ ToggledBy(path)
    /\ last' = Report("selectFieldType", "none", NoId)
    /\ edits' = edits + 1
    /\ UNCHANGED <<fieldCounter, exampleCounter, assigned, loadedIds>>
    /\ EditorFrame(backendObject')

\* change on the Dynamic checkbox (a click flips it):
\* toggleStaticDynamic(isDynamic, fieldId, parentObject); syncBackendObject.
DynamicChange(path, checked) ==
    /\ path \in Paths(backendObject)
    /\ CanEdit
    /\ checked # FieldAt(backendObject, path).isDynamic
    /\ LET tree == ReplaceFieldAt(backendObject, path,
                       [FieldAt(backendObject, path) EXCEPT !.isDynamic = checked])
       IN  /\ backendObject' = tree
           /\ trackerDef' = Save(tree)
    /\ last' = Report("toggleStaticDynamic", "none", NoId)
    /\ edits' = edits + 1
    /\ UNCHANGED <<fieldCounter, exampleCounter, shown, assigned, loadedIds>>
    /\ EditorFrame(backendObject')

\* input on the prompt box (typing changes its text):
\* updatePrompt(promptText, fieldId, parentObject); syncBackendObject.
PromptInput(path, text) ==
    /\ path \in Paths(backendObject)
    /\ CanEdit
    /\ text # FieldAt(backendObject, path).prompt
    /\ LET tree == ReplaceFieldAt(backendObject, path,
                       [FieldAt(backendObject, path) EXCEPT !.prompt = text])
       IN  /\ backendObject' = tree
           /\ trackerDef' = Save(tree)
    /\ last' = Report("updatePrompt", "none", NoId)
    /\ edits' = edits + 1
    /\ UNCHANGED <<fieldCounter, exampleCounter, shown, assigned, loadedIds>>
    /\ EditorFrame(backendObject')

\* input on the default value box (typing changes its text):
\* updateDefaultValue(defaultValue, fieldId, parentObject); syncBackendObject.
DefaultValueInput(path, text) ==
    /\ path \in Paths(backendObject)
    /\ CanEdit
    /\ text # FieldAt(backendObject, path).defaultValue
    /\ LET tree == ReplaceFieldAt(backendObject, path,
                       [FieldAt(backendObject, path) EXCEPT !.defaultValue = text])
       IN  /\ backendObject' = tree
           /\ trackerDef' = Save(tree)
    /\ last' = Report("updateDefaultValue", "none", NoId)
    /\ edits' = edits + 1
    /\ UNCHANGED <<fieldCounter, exampleCounter, shown, assigned, loadedIds>>
    /\ EditorFrame(backendObject')

\* input on the example box with data("index") = index - 1:
\* updateExampleValue(fieldId, value, index, parentObject); syncBackendObject.
\* Every box on screen carries the index of an existing slot.
ExampleValueInput(path, index, value) ==
    /\ path \in Paths(backendObject)
    /\ CanEdit
    /\ index \in 1..Len(FieldAt(backendObject, path).exampleValues)
    /\ value # FieldAt(backendObject, path).exampleValues[index]
    /\ LET tree == ReplaceFieldAt(backendObject, path,
                       [FieldAt(backendObject, path)
                           EXCEPT !.exampleValues[index] = value])
       IN  /\ backendObject' = tree
           /\ trackerDef' = Save(tree)
    /\ last' = Report("updateExampleValue", "none", NoId)
    /\ edits' = edits + 1
    /\ UNCHANGED <<fieldCounter, exampleCounter, shown, assigned, loadedIds>>
    /\ EditorFrame(backendObject')

\* ---------------------------------------------------------- example rounds
\* collectAllFields does not descend into nestedFields
PushToTopLevel(m) ==
    [i \in 1..Len(m) |-> [m[i] EXCEPT !.exampleValues = Append(@, "")]]

RECURSIVE PushToAll(_)
\* allFields.forEach(addExampleValue): exampleValues.push("") at every depth
PushToAll(m) ==
    [i \in 1..Len(m) |->
        [m[i] EXCEPT !.exampleValues = Append(@, ""),
                     !.nestedFields = PushToAll(@)]]

\* collectAllFields does not descend into nestedFields
PopFromTopLevel(m) ==
    [i \in 1..Len(m) |->
        [m[i] EXCEPT !.exampleValues =
                        IF Len(@) > 0 THEN SubSeq(@, 1, Len(@) - 1) ELSE @]]

RECURSIVE PopFromAll(_)
\* allFields.forEach: exampleValues.pop() where the array is not empty
PopFromAll(m) ==
    [i \in 1..Len(m) |->
        [m[i] EXCEPT !.exampleValues =
                        IF Len(@) > 0 THEN SubSeq(@, 1, Len(@) - 1) ELSE @,
                     !.nestedFields = PopFromAll(@)]]

\* addExampleValueToAllFields() on the editor st, up to the save.
AddExampleValueToAllFields(st) ==
    [st EXCEPT !.backendObject = PushToAll(@), !.exampleCounter = @ + 1]

\* removeExampleValueFromAllFields() on the editor st, up to the save.
RemoveExampleValueFromAllFields(st) ==
    [st EXCEPT !.backendObject = PopFromAll(@), !.exampleCounter = @ - 1]

\* "Add Example Value": addExampleValueToAllFields()
AddExampleValueClick ==
    /\ exampleCounter < MaxExamples
    /\ LET st == AddExampleValueToAllFields(ThisMaker)
       IN  /\ backendObject' = st.backendObject
           /\ exampleCounter' = st.exampleCounter
           /\ trackerDef' = Save(st.backendObject)
    /\ last' = Report("addExampleValueToAllFields", "none", NoId)
    /\ UNCHANGED <<fieldCounter, shown, assigned, loadedIds, edits>>
    /\ EditorFrame(backendObject')

\* "Remove Example Value": removeExampleValueFromAllFields()
RemoveExampleValueClick ==
    /\ exampleCounter > -MaxUnderflow
    /\ LET st == RemoveExampleValueFromAllFields(ThisMaker)
       IN  /\ backendObject' = st.backendObject
           /\ exampleCounter' = st.exampleCounter
           /\ trackerDef' = Save(st.backendObject)
    /\ last' = Report("removeExampleValueFromAllFields", "none", NoId)
    /\ UNCHANGED <<fieldCounter, shown, assigned, loadedIds, edits>>
    /\ EditorFrame(backendObject')

\* ------------------------------------------------------------------ loading
Stored(id, name, type, dyn, prompt, dflt, ev, nested) ==
    [id |-> id, name |-> name, type |-> type, isDynamic |-> dyn,
     prompt |-> prompt, defaultValue |-> dflt, exampleValues |-> ev,
     nestedFields |-> nested]

\* A schema an earlier session saved: the largest id is nested, the example
\* arrays have different lengths.
StoredNested ==
    <<Stored(<<"notes">>, "n", "OBJECT", FALSE, "p", "", Arr(<<"x">>),
        Obj(<<Stored(FieldId(0), "", "String", TRUE, "", "d", Arr(<<>>),
                Obj(<<>>))>>))>>

\* A schema from an imported preset whose field name holds a double quote.
StoredQuote ==
    <<Stored(FieldId(0), QuoteName, "STRING", TRUE, "", "", Arr(<<>>), Obj(<<>>))>>

\* Malformed: the second field has no exampleValues.
StoredMissing ==
    <<Stored(FieldId(0), "n", "STRING", TRUE, "", "", Arr(<<"x">>), Obj(<<>>)),
      [id |-> FieldId(1), name |-> "n", type |-> "STRING", isDynamic |-> TRUE,
       prompt |-> "", defaultValue |-> "", nestedFields |-> Obj(<<>>)]>>

\* Malformed: the exampleValues of the second field is a number.
StoredNonSequence ==
    <<Stored(FieldId(0), "n", "STRING", TRUE, "", "", Arr(<<>>), Obj(<<>>)),
      Stored(FieldId(1), "n", "STRING", TRUE, "", "", Num, Obj(<<>>))>>

\* Malformed: the nestedFields of the field is a string.
StoredNonMapping ==
    <<Stored(FieldId(0), "n", "OBJECT", TRUE, "", "", Arr(<<>>),
        Str(<<"a", "b">>))>>

\* Malformed: the exampleValues of the first field is a string shorter than
\* the longest array.
StoredShortString ==
    <<Stored(FieldId(0), "n", "STRING", TRUE, "", "", Str(<<"a">>), Obj(<<>>)),
      Stored(FieldId(1), "n", "STRING", TRUE, "", "", Arr(<<"x", "x">>),
        Obj(<<>>))>>

StoredInputs ==
    {StoredNested, StoredQuote, StoredMissing, StoredNonSequence,
     StoredNonMapping, StoredShortString}

\* The ids of the fields of a mapping, at every depth.
IdsOf(m) == {Last(p) : p \in Paths(m)}

\* The part of a load that does not depend on where the input came from;
\* op names the caller.
Load(op, r) ==
    /\ backendObject' = r.maker.backendObject
    /\ fieldCounter' = r.maker.fieldCounter
    /\ exampleCounter' = r.maker.exampleCounter
    /\ shown' = r.maker.shown
    /\ last' = Report(op, IF r.maker.threw THEN "failed" ELSE "loaded", NoId)
    /\ assigned' = {}
    /\ loadedIds' = IF r.maker.threw THEN {} ELSE IdsOf(r.maker.backendObject)
    /\ trackerDef' = NoTrackerDef
    /\ UNCHANGED edits
    /\ loadedFrom' = 0
    /\ UNCHANGED <<objects, defRef, makerOpen, presetVars, eventVars, initVars>>

\* populateFromExistingObject(extensionSettings.trackerDef): the object the
\* save callback stored is loaded again, as onTrackerPromptMakerClick does.
PopulateSaved ==
    /\ trackerDef.alias
    /\ Load("onTrackerPromptMakerClick",
            PopulateFromExistingObject(ThisMaker, TrackerDefNow))

\* populateFromExistingObject(existingObject) with a schema from elsewhere
\* (default settings, an imported preset).
PopulateStored(existingObject) ==
    Load("populateFromExistingObject",
         PopulateFromExistingObject(ThisMaker, existingObject))

Next ==
    \/ AddFieldClick
    \/ \E path \in Paths(backendObject) : AddNestedFieldClick(path)
    \/ \E path \in Paths(backendObject), confirmed \in BOOLEAN :
          RemoveFieldClick(path, confirmed)
    \/ \E path \in Paths(backendObject), name \in NameInputs :
          FieldNameInput(path, name)
    \/ \E path \in Paths(backendObject), type \in TypeInputs :
          FieldTypeChange(path, type)
    \/ \E path \in Paths(backendObject), checked \in BOOLEAN :
          DynamicChange(path, checked)
    \/ \E path \in Paths(backendObject), text \in TextInputs :
          PromptInput(path, text)
    \/ \E path \in Paths(backendObject), text \in TextInputs :
          DefaultValueInput(path, text)
    \/ \E path \in Paths(backendObject), index \in 1..(MaxExamples + 1),
          value \in ExampleInputs : ExampleValueInput(path, index, value)
    \/ AddExampleValueClick
    \/ RemoveExampleValueClick
    \/ PopulateSaved
    \/ \E existingObject \in StoredInputs : PopulateStored(existingObject)

Spec == Init /\ [][Next]_vars

\* ------------------------------------------------- the methods called directly
\* removeField and updateExampleValue take their arguments from the caller;
\* the form only ever passes the id of a wrapper on screen and the index of
\* an input box.  SpecCalls builds trees with the buttons and a load and
\* calls the two methods with any known id and any small index.
\* What a slot that was never assigned reads as.
Undefined == "<undefined>"

\* exampleValues[index] = value on a JS array: an index below the length
\* overwrites the slot, an index at or above it lengthens the array (the
\* slots in between are never assigned), a negative index names a property
\* that is no slot.
AssignSlot(ev, index, value) ==
    IF index < 0 THEN ev
    ELSE IF index < Len(ev) THEN [ev EXCEPT ![index + 1] = value]
    ELSE ev \o [i \in 1..(index - Len(ev)) |-> Undefined] \o <<value>>

\* updateExampleValue(fieldId, value, index, parentObject), called with any
\* index; the method itself does not call syncBackendObject.
UpdateExampleValue(path, index, value) ==
    /\ path \in Paths(backendObject)
    /\ CanEdit
    /\ backendObject' = ReplaceFieldAt(backendObject, path,
            [FieldAt(backendObject, path)
                EXCEPT !.exampleValues = AssignSlot(@, index, value)])
    /\ last' = Report("updateExampleValue", "none", NoId)
    /\ edits' = edits + 1
    /\ UNCHANGED <<fieldCounter, exampleCounter, shown, trackerDef, assigned,
                   loadedIds>>
    /\ EditorFrame(backendObject')

\* The ids the session has seen: a caller can name any of them.
KnownIds == IdsOf(backendObject) \cup assigned \cup loadedIds

\* the field is deleted before confirm() is asked
RemoveFieldUnasked(parentPath, fieldId, confirmed) ==
    /\ parentPath = <<>> \/ parentPath \in Paths(backendObject)
    /\ fieldId \in KnownIds
    /\ LET present == HasKey(MapAt(backendObject, parentPath), fieldId)
           tree == ReplaceMapAt(backendObject, parentPath,
                       DeleteKey(MapAt(backendObject, parentPath), fieldId))
       IN  /\ last' = Report("removeField",
                             IF ~confirmed THEN "declined"
                             ELSE IF present THEN "confirmed" ELSE "absent", fieldId)
           /\ backendObject' = tree
           /\ shown' = {p \in shown : ~IsPrefix(parentPath \o <<fieldId>>, p)}
           /\ trackerDef' = IF confirmed THEN Save(tree) ELSE trackerDef
    /\ UNCHANGED <<fieldCounter, exampleCounter, assigned, loadedIds, edits>>
    /\ EditorFrame(backendObject')

\* removeField(fieldId, parentObject, fieldWrapper) called with the mapping
\* at parentPath, any known id and the wrapper built for that id, with the
\* answer given to confirm().
RemoveField(parentPath, fieldId, confirmed) ==
    /\ parentPath = <<>> \/ parentPath \in Paths(backendObject)
    /\ fieldId \in KnownIds
    /\ LET present == HasKey(MapAt(backendObject, parentPath), fieldId)
           tree == ReplaceMapAt(backendObject, parentPath,
                       DeleteKey(MapAt(backendObject, parentPath), fieldId))
       IN  IF confirmed
           THEN /\ last' = Report("removeField",
                                  IF present THEN "confirmed" ELSE "absent", fieldId)
                /\ backendObject' = tree
                /\ shown' = {p \in shown : ~IsPrefix(parentPath \o <<fieldId>>, p)}
                /\ trackerDef' = Save(tree)
           ELSE /\ last' = Report("removeField", "declined", fieldId)
                /\ UNCHANGED <<backendObject, shown, trackerDef>>
    /\ UNCHANGED <<fieldCounter, exampleCounter, assigned, loadedIds, edits>>
    /\ EditorFrame(backendObject')

NextCalls ==
    \/ AddFieldClick
    \/ \E path \in Paths(backendObject) : AddNestedFieldClick(path)
    \/ AddExampleValueClick
    \/ \E existingObject \in StoredInputs : PopulateStored(existingObject)
    \/ \E path \in Paths(backendObject), index \in (-1)..MaxIndex,
          value \in ExampleInputs : UpdateExampleValue(path, index, value)
    \/ \E parentPath \in {<<>>} \cup Paths(backendObject), fieldId \in KnownIds,
          confirmed \in BOOLEAN : RemoveField(parentPath, fieldId, confirmed)

SpecCalls == Init /\ [][NextCalls]_vars

\* ------------------------------------------------------- the modal's editor
\* onTrackerPromptMakerClick builds a new editor on extensionSettings.
\* trackerDef, an object the settings keep.  The specifications below
\* follow that object and every other tracker definition by reference: a
\* reference is Live (the backendObject of the editor on screen) or an
\* index of objects.  The button is on the settings panel, so a click on it
\* means an earlier modal is gone and its editor writes no more.

\* A preset without a value: what presets[name] reads as for a missing key.
NoPreset == [undefined |-> TRUE]

\* Some reference kept outside the editor is this.backendObject.
LiveIsKept ==
    \/ trackerDef.alias
    \/ \E i \in 1..Len(presets) :
          presets[i].value # NoPreset /\ presets[i].value.trackerDef = Live

\* The presets with every reference to the live tree turned into k.
Redirected(ps, k) ==
    [i \in 1..Len(ps) |->
        IF ps[i].value # NoPreset /\ ps[i].value.trackerDef = Live
        THEN [ps[i] EXCEPT !.value.trackerDef = k]
        ELSE ps[i]]

\* new TrackerPromptMaker(existingObject, cb) on the object at reference
\* ref: init() calls populateFromExistingObject only for an object with
\* keys.  maker: the new editor; input: the object as the call leaves it.
NewMaker(existingObject) ==
    IF existingObject = NoFields
    THEN [maker |-> Maker(NoFields, 0, 0, {}, FALSE), input |-> existingObject]
    ELSE PopulateFromExistingObject(Maker(NoFields, 0, 0, {}, FALSE), existingObject)

\* The references the presets hold.
PresetRefs(ps) ==
    {ps[i].value.trackerDef : i \in {j \in 1..Len(ps) : ps[j].value # NoPreset}}

\* An object no reference leads to is out of anyone's reach: objects keeps
\* those in use, in their order, and the references are renumbered.
Renumbered(used, k) == Cardinality({j \in used : j <= k})

Compacted(objs, used) ==
    [i \in 1..Cardinality(used) |->
        objs[CHOOSE j \in used : Renumbered(used, j) = i]]

RenumberedPresets(ps, used) ==
    [i \in 1..Len(ps) |->
        IF ps[i].value = NoPreset THEN ps[i]
        ELSE [ps[i] EXCEPT !.value.trackerDef = Renumbered(used, @)]]

\* onTrackerPromptMakerClick: modal.show(extensionSettings.trackerDef, cb).
\* The editor that was on screen is gone; its backendObject stays where a
\* reference to it is kept, as one more of objects.
OnTrackerPromptMakerClick ==
    /\ LET kept == IF LiveIsKept THEN Append(objects, TrackerDefNow) ELSE objects
           ref == IF trackerDef.alias THEN Len(kept) ELSE defRef
           r == NewMaker(kept[ref])
           held == Redirected(presets, Len(kept))
           used == (PresetRefs(held) \cup {ref}) \ {Live}
       IN  /\ Cardinality(used) <= MaxObjects
           /\ backendObject' = r.maker.backendObject
           /\ fieldCounter' = r.maker.fieldCounter
           /\ exampleCounter' = r.maker.exampleCounter
           /\ shown' = r.maker.shown
           /\ last' = Report("onTrackerPromptMakerClick",
                             IF r.maker.threw THEN "failed" ELSE "loaded", NoId)
           /\ assigned' = {}
           /\ loadedIds' = IF r.maker.threw THEN {}
                           ELSE IdsOf(r.maker.backendObject)
           /\ trackerDef' = NoTrackerDef
           /\ objects' = Compacted([kept EXCEPT ![ref] = r.input], used)
           /\ defRef' = Renumbered(used, ref)
           /\ loadedFrom' = Renumbered(used, ref)
           /\ presets' = RenumberedPresets(held, used)
    /\ makerOpen' = TRUE
    /\ UNCHANGED <<edits, selectedPreset, presetSelect, settings, clicks,
                   eventVars, initVars>>

\* The editor in the modal: a tree is built with the buttons, names and
\* example values are typed, and the modal is opened again on what was
\* saved.
NextModal ==
    \/ OnTrackerPromptMakerClick
    \/ AddFieldClick
    \/ \E path \in Paths(backendObject), confirmed \in BOOLEAN :
          RemoveFieldClick(path, confirmed)
    \/ \E path \in Paths(backendObject), name \in NameInputs :
          FieldNameInput(path, name)
    \/ \E path \in Paths(backendObject), index \in 1..(MaxExamples + 1),
          value \in ExampleInputs : ExampleValueInput(path, index, value)
    \/ AddExampleValueClick

SpecModal == Init /\ [][NextModal]_vars

\* ---------------------------------------------------------------- presets
\* extensionSettings.presets is a mapping from names to presets, kept in
\* the order of its keys; settings holds two of the eleven scalar settings
\* of a preset, a select (generationMode) and a textarea (template).  A
\* click on the settings panel means the modal is gone.

\* null: $("#tracker_preset_select").val() without options, prompt() when
\* cancelled.
Null == "<null>"

\* The property key a value is read or written under.
Key(v) == IF v = Null THEN "null" ELSE v

\* Object.keys(extensionSettings.presets)
Keys(ps) == [i \in 1..Len(ps) |-> ps[i].name]

KeySet(ps) == {ps[i].name : i \in 1..Len(ps)}

\* extensionSettings.presets[v]
Get(ps, v) ==
    IF Key(v) \in KeySet(ps)
    THEN (CHOOSE e \in {ps[i] : i \in 1..Len(ps)} : e.name = Key(v)).value
    ELSE NoPreset

\* extensionSettings.presets[v] = value: an existing key keeps its place
Put(ps, v, value) ==
    IF Key(v) \in KeySet(ps)
    THEN [i \in 1..Len(ps) |->
            IF ps[i].name = Key(v) THEN [ps[i] EXCEPT !.value = value] ELSE ps[i]]
    ELSE Append(ps, [name |-> Key(v), value |-> value])

\* delete extensionSettings.presets[v]
Delete(ps, v) == SelectSeq(ps, LAMBDA e : e.name # Key(v))

\* a name in use is taken whatever it holds
Taken(ps, v) == Key(v) \in KeySet(ps) \/ v \in {"", Null}

\* !(presetName && !extensionSettings.presets[presetName]): the name is
\* empty or null, or the mapping holds a preset under it
Refused(ps, v) == v \in {"", Null} \/ Get(ps, v) # NoPreset

\* updatePresetDropdown(): one option per key, the one that is
\* selectedPreset selected; a select shows its first option when none is,
\* and has the value null without options.
UpdatePresetDropdown(ps, sel) ==
    [options |-> Keys(ps),
     val |-> IF sel \in KeySet(ps) THEN sel
             ELSE IF Len(ps) > 0 THEN ps[1].name ELSE Null]

\* The reference extensionSettings.trackerDef holds.
TrackerDefRef == IF trackerDef.alias THEN Live ELSE defRef

\* What the object at a reference holds now.
Content(ref) == IF ref = Live THEN ToStored(backendObject) ELSE objects[ref]

\* getCurrentPresetSettings(): the scalar settings by value, trackerDef as
\* the reference it is.
GetCurrentPresetSettings(by) ==
    [Preset(settings.generationMode, settings.template, TrackerDefRef,
            Content(TrackerDefRef)) EXCEPT !.by = by]

\* Object.assign(extensionSettings, presetSettings)
AssignPreset(presetSettings) ==
    IF presetSettings = NoPreset
    THEN UNCHANGED <<settings, trackerDef, defRef>>
    ELSE /\ settings' = [generationMode |-> presetSettings.generationMode,
                         template |-> presetSettings.template]
         /\ IF presetSettings.trackerDef = Live
            THEN /\ trackerDef' = IF trackerDef.alias THEN trackerDef
                                  ELSE Save(backendObject)
                 /\ UNCHANGED defRef
            ELSE /\ trackerDef' = NoTrackerDef
                 /\ defRef' = presetSettings.trackerDef

\* What a preset control or a setting input leaves alone.
PanelFrame ==
    /\ clicks < MaxClicks
    /\ clicks' = clicks + 1
    /\ makerOpen' = FALSE
    /\ loadedFrom' = 0
    /\ UNCHANGED <<backendObject, fieldCounter, exampleCounter, shown, last,
                   assigned, loadedIds, edits, eventVars, initVars>>

\* onPresetSelectChange.call(select), the select showing val
SelectPreset(ps, val) ==
    /\ selectedPreset' = val
    /\ AssignPreset(Get(ps, val))
    /\ presetSelect' = UpdatePresetDropdown(ps, val)

\* onPresetSelectChange: the user has chosen the option val
OnPresetSelectChange(val) ==
    /\ val # presetSelect.val
    /\ SelectPreset(presets, val)
    /\ UNCHANGED <<presets, objects>>
    /\ PanelFrame

\* onPresetNewClick, prompt() returning presetName
OnPresetNewClick(presetName) ==
    /\ IF ~Refused(presets, presetName)
       THEN /\ presets' = Put(presets, presetName,
                                GetCurrentPresetSettings("onPresetNewClick"))
            /\ selectedPreset' = presetName
            /\ presetSelect' = UpdatePresetDropdown(presets', presetName)
       ELSE UNCHANGED <<presets, selectedPreset, presetSelect>>
    /\ UNCHANGED <<settings, trackerDef, defRef, objects>>
    /\ PanelFrame

\* onPresetSaveClick
OnPresetSaveClick ==
    /\ presets' = Put(presets, selectedPreset,
                      GetCurrentPresetSettings("onPresetSaveClick"))
    /\ UNCHANGED <<selectedPreset, presetSelect, settings, trackerDef, defRef,
                   objects>>
    /\ PanelFrame

\* onPresetRenameClick, prompt() returning newName
OnPresetRenameClick(newName) ==
    /\ LET oldName == presetSelect.val
       IN  IF ~Refused(presets, newName)
           THEN /\ presets' = Delete(Put(presets, newName, Get(presets, oldName)),
                                     oldName)
                /\ selectedPreset' = IF selectedPreset = oldName THEN newName
                                     ELSE selectedPreset
                /\ presetSelect' = UpdatePresetDropdown(presets', selectedPreset')
           ELSE UNCHANGED <<presets, selectedPreset, presetSelect>>
    /\ UNCHANGED <<settings, trackerDef, defRef, objects>>
    /\ PanelFrame

\* onPresetRestoreClick
OnPresetRestoreClick ==
    /\ AssignPreset(Get(presets, selectedPreset))
    /\ presetSelect' = UpdatePresetDropdown(presets, selectedPreset)
    /\ UNCHANGED <<presets, selectedPreset, objects>>
    /\ PanelFrame

\* onPresetDeleteClick, confirm() returning confirmed
OnPresetDeleteClick(confirmed) ==
    /\ IF confirmed
       THEN /\ presets' = Delete(presets, presetSelect.val)
            /\ SelectPreset(presets',
                            UpdatePresetDropdown(presets',
                                IF Len(presets') > 0 THEN presets'[1].name
                                ELSE Undefined).val)
       ELSE UNCHANGED <<presets, selectedPreset, presetSelect, settings,
                      trackerDef, defRef>>
    /\ UNCHANGED objects
    /\ PanelFrame

\* A file of presets to import: one under a new name, one under the name
\* of the preset the settings begin with.
ImportedPresets ==
    <<[name |-> "a", generationMode |-> "i", template |-> "u",
       trackerDef |-> StoredNested],
      [name |-> "Default", generationMode |-> "i", template |-> "u",
       trackerDef |-> StoredQuote]>>

\* for (const presetName in importedPresets): st holds presets and objects
\* so far; confirm() returns confirmed where it is asked.  JSON.parse has
\* made the objects of the file anew.
RECURSIVE ImportPresets(_, _, _)
ImportPresets(st, importedPresets, confirmed) ==
    IF importedPresets = <<>> THEN st
    ELSE LET e == Head(importedPresets)
         IN  IF Get(st.presets, e.name) = NoPreset \/ confirmed
             THEN ImportPresets(
                      [presets |-> Put(st.presets, e.name,
                                       Preset(e.generationMode, e.template,
                                              Len(st.objects) + 1, e.trackerDef)),
                       objects |-> Append(st.objects, e.trackerDef)],
                      Tail(importedPresets), confirmed)
             ELSE ImportPresets(st, Tail(importedPresets), confirmed)

\* onPresetImportChange, reader.onload
OnPresetImportChange(confirmed) ==
    /\ Len(objects) + Len(ImportedPresets) <= MaxObjects
    /\ LET st == ImportPresets([presets |-> presets, objects |-> objects],
                               ImportedPresets, confirmed)
       IN  /\ presets' = st.presets
           /\ objects' = st.objects
    /\ presetSelect' = UpdatePresetDropdown(presets', selectedPreset)
    /\ UNCHANGED <<selectedPreset, settings, trackerDef, defRef>>
    /\ PanelFrame

\* What prompt() returns: a new name, the name of the preset the settings
\* begin with, nothing typed, cancelled.
PromptedNames == {"a", "Default", "", Null}

ModeInputs == {"m", "i"}
TemplateInputs == {"t", "u"}

\* onGenerationModeChange: the user has chosen value
OnGenerationModeChange(value) ==
    /\ value # settings.generationMode
    /\ settings' = [settings EXCEPT !.generationMode = value]
    /\ UNCHANGED <<presets, selectedPreset, presetSelect, trackerDef, defRef,
                   objects>>
    /\ PanelFrame

\* onSettingInputareaInput(settingName): the user has typed value
OnSettingInputareaInput(value) ==
    /\ value # settings.template
    /\ settings' = [settings EXCEPT !.template = value]
    /\ UNCHANGED <<presets, selectedPreset, presetSelect, trackerDef, defRef,
                   objects>>
    /\ PanelFrame

\* The settings panel and the modal it opens.
NextPresets ==
    \/ \E val \in KeySet(presets) : OnPresetSelectChange(val)
    \/ \E presetName \in PromptedNames : OnPresetNewClick(presetName)
    \/ OnPresetSaveClick
    \/ \E newName \in PromptedNames : OnPresetRenameClick(newName)
    \/ OnPresetRestoreClick
    \/ \E confirmed \in BOOLEAN : OnPresetDeleteClick(confirmed)
    \/ \E confirmed \in BOOLEAN : OnPresetImportChange(confirmed)
    \/ \E value \in ModeInputs : OnGenerationModeChange(value)
    \/ \E value \in TemplateInputs : OnSettingInputareaInput(value)
    \/ OnTrackerPromptMakerClick
    \/ makerOpen /\ AddFieldClick
    \/ \E path \in Paths(backendObject), name \in NameInputs :
          makerOpen /\ FieldNameInput(path, name)

SpecPresets == Init /\ [][NextPresets]_vars

\* ------------------------------------------------------- the event handlers
\* The six handlers of eventHandlers are async functions: between an await
\* and its continuation other handlers run, messages arrive and settings
\* are changed.  An invocation is followed from its call to its return; log
\* is what it has done so far, and finished is the invocation that returned
\* in the last step, if one did.  clearInjects, generationCaptured,
\* prepareMessageGeneration and addTrackerToMessage belong to other modules:
\* each resolves at some later step, generationCaptured with either answer.
MessageHandlers ==
    {"onMessageReceived", "onMessageSent", "onCharacterMessageRendered",
     "onUserMessageRendered"}

\* The two that end with updateTrackerUI().
RenderedHandlers == {"onCharacterMessageRendered", "onUserMessageRendered"}

GenerationTypes == {"continue", "swipe", "regenerate", "impersonate"}

\* type as the host passes it: undefined, a listed one, an unlisted one.
TypeArgs == {Undefined, "swipe", "quiet"}

\* What a message's tracker holds: no tracker, one without keys, one with.
Trackers == {"none", "empty", "full"}

\* An entry of a log; a call of another module's function is entered with
\* the chat and is_group_generating it was made in.
Event(e) == [e |-> e, chat |-> <<>>, group |-> FALSE]
CallEvent(e) == [e |-> e, chat |-> chat, group |-> is_group_generating]

Invocation(handler, mesId, type, pc, log) ==
    [handler |-> handler, mesId |-> mesId, type |-> type, pc |-> pc, log |-> log]

\* chat[mesId]: the tracker of the message, "missing" without a message.
Message(c, mesId) == IF mesId < Len(c) THEN c[mesId + 1] ELSE "missing"

\* the tracker of the message is not looked at
MessageGuardWithoutTracker(mesId) ==
    Message(chat, mesId) = "missing"

\* !chat[mesId] || (chat[mesId].tracker &&
\*                  Object.keys(chat[mesId].tracker).length !== 0)
MessageGuard(mesId) ==
    \/ Message(chat, mesId) = "missing"
    \/ Message(chat, mesId) = "full"

\* is_group_generating is not looked at
AfterCommandsGuardWithoutGroup(type) ==
    \/ Len(chat) = 0
    \/ (type # Undefined /\ type \notin GenerationTypes)

\* chat.length == 0 || is_group_generating || (typeof type != "undefined"
\*     && !["continue", "swipe", "regenerate", "impersonate"].includes(type))
AfterCommandsGuard(type) ==
    \/ Len(chat) = 0
    \/ is_group_generating
    \/ (type # Undefined /\ type \notin GenerationTypes)

\* The invocation after isEnabled() has resolved with captured, up to its
\* next await or its return.
AfterIsEnabled(inv, captured) ==
    LET log == Append(inv.log,
                      Event(IF captured THEN "isEnabled true" ELSE "isEnabled false"))
    IN  IF ~captured
        THEN [inv EXCEPT !.pc = "returned", !.log = log]
        ELSE IF inv.handler = "onChatChanged"
        THEN [inv EXCEPT !.pc = "returned",
                         !.log = log \o <<Event("updateTrackerUI"),
                                          Event("releaseGeneration")>>]
        ELSE IF inv.handler = "onGenerateAfterCommands"
        THEN IF AfterCommandsGuard(inv.type)
             THEN [inv EXCEPT !.pc = "returned", !.log = log]
             ELSE [inv EXCEPT !.pc = "prepareMessageGeneration",
                              !.log = Append(log, CallEvent("prepareMessageGeneration"))]
        ELSE IF MessageGuard(inv.mesId)
             THEN [inv EXCEPT !.pc = "returned", !.log = log]
             ELSE [inv EXCEPT !.pc = "addTrackerToMessage",
                              !.log = Append(log, CallEvent("addTrackerToMessage"))]

\* isEnabled(): extensionSettings.enabled && (await generationCaptured()).
\* A false enabled resolves it at once; otherwise the invocation waits for
\* generationCaptured().
IsEnabled(inv) ==
    IF enabled THEN [inv EXCEPT !.pc = "generationCaptured"]
    ELSE AfterIsEnabled(inv, FALSE)

Without(seq, i) == SubSeq(seq, 1, i - 1) \o SubSeq(seq, i + 1, Len(seq))

\* running and finished once invocation i has become inv (i = 0: a new one).
Proceed(i, inv) ==
    IF inv.pc = "returned"
    THEN /\ running' = IF i = 0 THEN running ELSE Without(running, i)
         /\ finished' = inv
    ELSE /\ running' = IF i = 0 THEN Append(running, inv)
                       ELSE [running EXCEPT ![i] = inv]
         /\ finished' = NoCall

EventFrame ==
    UNCHANGED <<editorVars, objects, defRef, loadedFrom, makerOpen, presetVars,
                initVars>>

\* onChatChanged(args), up to its first await
OnChatChanged ==
    /\ Len(running) < MaxRunning
    /\ Proceed(0, IsEnabled(Invocation("onChatChanged", 0, Undefined, "called", <<>>)))
    /\ UNCHANGED <<enabled, chat, is_group_generating>>
    /\ EventFrame

\* onGenerateAfterCommands(type, options, dryRun), up to await clearInjects()
OnGenerateAfterCommands(type) ==
    /\ Len(running) < MaxRunning
    /\ Proceed(0, Invocation("onGenerateAfterCommands", 0, type, "clearInjects",
                             <<Event("clearInjects")>>))
    /\ UNCHANGED <<enabled, chat, is_group_generating>>
    /\ EventFrame

\* onMessageReceived, onMessageSent, onCharacterMessageRendered,
\* onUserMessageRendered (mesId), up to their first await
OnMessage(handler, mesId) ==
    /\ Len(running) < MaxRunning
    /\ Proceed(0, IsEnabled(Invocation(handler, mesId, Undefined, "called", <<>>)))
    /\ UNCHANGED <<enabled, chat, is_group_generating>>
    /\ EventFrame

\* clearInjects() resolves: invocation i goes on to isEnabled()
ClearInjectsResolves(i) ==
    /\ running[i].pc = "clearInjects"
    /\ Proceed(i, IsEnabled([running[i] EXCEPT
                                !.log = Append(@, Event("clearInjects done"))]))
    /\ UNCHANGED <<enabled, chat, is_group_generating>>
    /\ EventFrame

\* generationCaptured() resolves with captured: invocation i goes on
GenerationCapturedResolves(i, captured) ==
    /\ running[i].pc = "generationCaptured"
    /\ Proceed(i, AfterIsEnabled(running[i], captured))
    /\ UNCHANGED <<enabled, chat, is_group_generating>>
    /\ EventFrame

\* prepareMessageGeneration(...) resolves: releaseGeneration(); return
PrepareMessageGenerationResolves(i) ==
    /\ running[i].pc = "prepareMessageGeneration"
    /\ Proceed(i, [running[i] EXCEPT
                      !.pc = "returned",
                      !.log = @ \o <<Event("prepareMessageGeneration done"),
                                     Event("releaseGeneration")>>])
    /\ UNCHANGED <<enabled, chat, is_group_generating>>
    /\ EventFrame

\* addTrackerToMessage(mesId) resolves, having left the message with the
\* tracker given; releaseGeneration(); updateTrackerUI() in the rendered
\* handlers; return
AddTrackerToMessageResolves(i, tracker) ==
    /\ running[i].pc = "addTrackerToMessage"
    /\ chat' = [chat EXCEPT ![running[i].mesId + 1] = tracker]
    /\ Proceed(i, [running[i] EXCEPT
                      !.pc = "returned",
                      !.log = @ \o <<Event("addTrackerToMessage done"),
                                     Event("releaseGeneration")>>
                                \o IF running[i].handler \in RenderedHandlers
                                   THEN <<Event("updateTrackerUI")>> ELSE <<>>])
    /\ UNCHANGED <<enabled, is_group_generating>>
    /\ EventFrame

\* The host puts a message into the chat.
MessageArrives(tracker) ==
    /\ Len(chat) < MaxChat
    /\ chat' = Append(chat, tracker)
    /\ finished' = NoCall
    /\ UNCHANGED <<enabled, is_group_generating, running>>
    /\ EventFrame

\* The host starts or ends a group generation.
GroupGeneration(flag) ==
    /\ flag # is_group_generating
    /\ is_group_generating' = flag
    /\ finished' = NoCall
    /\ UNCHANGED <<enabled, chat, running>>
    /\ EventFrame

\* onSettingCheckboxInput("enabled"): input on #tracker_enable
EnabledInput(checked) ==
    /\ checked # enabled
    /\ enabled' = checked
    /\ finished' = NoCall
    /\ UNCHANGED <<chat, is_group_generating, running>>
    /\ EventFrame

NextEvents ==
    \/ OnChatChanged
    \/ \E type \in TypeArgs : OnGenerateAfterCommands(type)
    \/ \E handler \in MessageHandlers, mesId \in 0..MaxChat : OnMessage(handler, mesId)
    \/ \E i \in 1..Len(running) : ClearInjectsResolves(i)
    \/ \E i \in 1..Len(running), captured \in BOOLEAN :
          GenerationCapturedResolves(i, captured)
    \/ \E i \in 1..Len(running) : PrepareMessageGenerationResolves(i)
    \/ \E i \in 1..Len(running), tracker \in {"full", "empty"} :
          AddTrackerToMessageResolves(i, tracker)
    \/ \E tracker \in Trackers : MessageArrives(tracker)
    \/ \E flag \in BOOLEAN : GroupGeneration(flag)
    \/ \E checked \in BOOLEAN : EnabledInput(checked)

SpecEvents == Init /\ [][NextEvents]_vars

\* ------------------------------------------------------------- initSettings
\* Settings are objects with string keys; a value is written as its JS
\* literal.  initSettings is followed from the settings the host hands
\* over (an earlier version's, this version's, none) to the await of
\* loadSettingsUI().
AllowedKeys ==
    {"enabled", "generateContextTemplate", "generateSystemPrompt",
     "generateRequestPrompt", "characterDescriptionTemplate",
     "mesTrackerTemplate", "numberOfMessages", "responseLength", "debugMode"}

\* A key that is not there.
Absent == "<absent>"

\* The values `||` passes over.
FalsyValues == {"false", "0", "\"\"", "null", Undefined}

\* obj[key]
Read(obj, key) == IF key \in DOMAIN obj THEN obj[key] ELSE Undefined

\* a || b
Or(a, b) == IF a \in FalsyValues THEN b ELSE a

\* Object.assign(target, source), { ...target, ...source }
Assign(target, source) ==
    [k \in DOMAIN target \cup DOMAIN source |->
        IF k \in DOMAIN source THEN source[k] ELSE target[k]]

\* The object with the keys of obj that are there.
Settings(obj) == [k \in {j \in DOMAIN obj : obj[j] # Absent} |-> obj[k]]

\* What the host may hand over: a boolean, a number and a template among
\* the allowed keys, a key the defaults know (generationMode), one they do
\* not (legacyPrompt), and trackerDef.
PriorSettings ==
    {Settings([enabled |-> e, numberOfMessages |-> n, generateContextTemplate |-> t,
               generationMode |-> m, legacyPrompt |-> l, trackerDef |-> d]) :
        e \in {Absent, "true", "false"}, n \in {Absent, "0", "7"},
        t \in {Absent, "\"\"", "\"p\""}, m \in {Absent, "\"i\""},
        l \in {Absent, "\"q\""}, d \in {Absent, "{...}"}}

\* defaultSettings.js is not among the sources: the defaults are taken to
\* hold every allowed key, generationMode and trackerDef, with either
\* boolean for enabled.
DefaultSettings ==
    {[enabled |-> e, generateContextTemplate |-> "\"c\"",
      generateSystemPrompt |-> "\"s\"", generateRequestPrompt |-> "\"r\"",
      characterDescriptionTemplate |-> "\"d\"", mesTrackerTemplate |-> "\"t\"",
      numberOfMessages |-> "5", responseLength |-> "200", debugMode |-> "false",
      generationMode |-> "\"m\"", trackerDef |-> "{}"] : e \in {"true", "false"}}

\* newSettings, oldSettings aside: { ...defaultSettings,
\* ...Object.fromEntries(allowedKeys.map((key) =>
\*     [key, currentSettings[key] || defaultSettings[key]])) }
NewSettings(current, defaults) ==
    Assign(defaults,
           [key \in AllowedKeys |-> Or(Read(current, key), Read(defaults, key))])

\* for (const key in extensionSettings) if (!(key in newSettings)) delete
Pruned(settingsNow, newSettings) ==
    [k \in DOMAIN settingsNow \cap DOMAIN newSettings |-> settingsNow[k]]

\* The settings as the host hands them over.
InitBoot ==
    /\ Constructed
    /\ extensionSettings \in PriorSettings
    /\ oldSettings = NoOldSettings
    /\ defaultSettings \in DefaultSettings
    /\ currentSettings = NoKeys
    /\ initialised = FALSE

\* initSettings(), to its await
InitSettings ==
    /\ ~initialised
    /\ currentSettings' = extensionSettings
    /\ IF Read(currentSettings', "trackerDef") \in FalsyValues
       THEN LET newSettings == NewSettings(currentSettings', defaultSettings)
            IN  /\ extensionSettings' =
                       Assign(Pruned(extensionSettings, newSettings), newSettings)
                /\ oldSettings' = [present |-> TRUE, value |-> currentSettings']
       ELSE /\ extensionSettings' =
                   Assign(Assign(extensionSettings, defaultSettings),
                          currentSettings')
            /\ UNCHANGED oldSettings
    /\ initialised' = TRUE
    /\ UNCHANGED <<defaultSettings, editorVars, objects, defRef, loadedFrom,
                   makerOpen, presetVars, eventVars>>

NextInit == InitSettings

SpecInit == InitBoot /\ [][NextInit]_vars

\* ------------------------------------------------------------------ claims
Fields == {FieldAt(backendObject, p) : p \in Paths(backendObject)}

Creates == {"addField", "addNestedField"}
Loads == {"populateFromExistingObject", "onTrackerPromptMakerClick"}

\* C1: in every reachable state every field, at every depth, has exactly
\* exampleCounter example values.
ExampleCountUniform ==
    \A f \in Fields : Len(f.exampleValues) = exampleCounter

\* C2: the example-round counter is never negative.
ExampleCounterNeverNegative == exampleCounter >= 0

RECURSIVE MaxLen(_)
\* The longest exampleValues of a mapping, at any depth.
MaxLen(m) ==
    IF m = <<>> THEN 0
    ELSE Max(Max(Len(Head(m).exampleValues), MaxLen(Head(m).nestedFields)),
             MaxLen(Tail(m)))

RECURSIVE Padded(_, _)
\* A mapping with every exampleValues filled up with "" to n slots.
Padded(m, n) ==
    [i \in 1..Len(m) |->
        [m[i] EXCEPT !.exampleValues = @ \o Empties(n - Len(@)),
                     !.nestedFields = Padded(@, n)]]

\* C3: handing the live tree out and loading it again gives the same ids in
\* the same nesting and order and, for every field, the same name, type,
\* isDynamic, prompt, defaultValue and example values (each array filled up
\* to the longest one).
RoundTrip ==
    LET r == PopulateFromExistingObject(ThisMaker, ToStored(backendObject))
    IN  /\ ~r.maker.threw
        /\ r.maker.backendObject = Padded(backendObject, MaxLen(backendObject))

\* C3 witness: the prompt-maker button has reloaded a nested tree that holds
\* a renamed field and a field switched to static.
RoundTripWitness ==
    /\ last = Report("onTrackerPromptMakerClick", "loaded", NoId)
    /\ \E p \in Paths(backendObject) : Len(p) = 2
    /\ \E f \in Fields : f.name # ""
    /\ \E f \in Fields : ~f.isDynamic

\* C4: the object handed to the save callback still has the content it was
\* handed over with.
SnapshotUnchanged == trackerDef.alias => TrackerDefNow = trackerDef.snap

\* C5: a name with a double quote is refused (false is returned, tree and
\* counters stay as they were); any other name is accepted (true is
\* returned, the field carries the name, and so does the object handed to
\* the save callback).
RenameContract ==
    [][last'.op = "validateFieldName" =>
       \A path \in Paths(backendObject), name \in NameInputs :
          FieldNameInput(path, name) =>
             IF HasQuote(name)
             THEN /\ last'.ret = "false"
                  /\ backendObject' = backendObject
                  /\ fieldCounter' = fieldCounter
                  /\ exampleCounter' = exampleCounter
             ELSE /\ last'.ret = "true"
                  /\ FieldAt(backendObject', path).name = name
                  /\ trackerDef'.snap = ToStored(backendObject')]_vars

\* C5 witness: a rename was refused although the field had another name.
RenameWitness ==
    /\ last = Report("validateFieldName", "false", NoId)
    /\ \E f \in Fields : f.name = "n"

\* C6: no field name holds a double quote.
NoQuoteInNames == \A f \in Fields : ~HasQuote(f.name)

\* C7: every field's type is one of the five keys of FIELD_TYPES.
TypesInEnumeration == \A f \in Fields : f.type \in FieldTypeKeys

\* C8: a load that fails leaves the tree it found or an empty tree.
FailedLoadAllOrNothing ==
    [][(last'.op \in Loads /\ last'.ret = "failed") =>
          (backendObject' = <<>> \/ backendObject' = backendObject)]_vars

IsFieldN(id) == Len(id) = 2 /\ id[1] = "field" /\ ParseInt(id[2]) # NaN

\* C9: an id generated after a load differs from every id the load brought
\* in, at any depth, and its number is above that of every loaded field-N.
FreshIdAfterLoad ==
    last.op \in Creates =>
        \A id \in loadedIds :
            /\ last.id # id
            /\ IsFieldN(id) => IdNum(last.id) > IdNum(id)

\* C9 witness: a field was added after a load that brought in a nested
\* field-N.
FreshIdWitness ==
    /\ last.op \in Creates
    /\ \E p \in Paths(backendObject) :
          Len(p) = 2 /\ Last(p) \in loadedIds /\ IsFieldN(Last(p))

\* C10: between two loads fieldCounter never decreases, and a generated id
\* is none of the ids generated before it (removed or not) and no key of the
\* mapping it is put into.
IdsNeverReused ==
    [][/\ last'.op \notin Loads => fieldCounter' >= fieldCounter
       /\ last'.op \in Creates => last'.id \notin assigned
       /\ last'.op = "addField" =>
             (AddFieldClick => ~HasKey(backendObject, last'.id))
       /\ last'.op = "addNestedField" =>
             \A path \in Paths(backendObject) :
                AddNestedFieldClick(path) =>
                   ~HasKey(MapAt(backendObject, path), last'.id)]_vars

\* C10 witness: a field was added after an earlier generated field had been
\* removed.
IdsNeverReusedWitness ==
    /\ last.op \in Creates
    /\ \E id \in assigned : id \notin IdsOf(backendObject)

\* The attributes of the field at path q, its children left aside.
Flat(m, q) == [FieldAt(m, q) EXCEPT !.nestedFields = <<>>]

\* C11: a confirmed removal takes the field and everything below it out of
\* the tree; every other field is still there with the attributes it had,
\* and fieldCounter and exampleCounter are as before.
RemoveLeavesNoOrphan ==
    [][last' = Report("removeField", "confirmed", last'.id) =>
       \A path \in Paths(backendObject) :
          RemoveFieldClick(path, TRUE) =>
             /\ Paths(backendObject') =
                   {q \in Paths(backendObject) : ~IsPrefix(path, q)}
             /\ \A q \in Paths(backendObject') :
                   Flat(backendObject', q) = Flat(backendObject, q)
             /\ fieldCounter' = fieldCounter
             /\ exampleCounter' = exampleCounter]_vars

\* C11 witness: the loaded field "notes" was removed with the field nested
\* in it, and a field added beside it is still in the tree.
RemoveWitness ==
    /\ last = Report("removeField", "confirmed", <<"notes">>)
    /\ FieldId(0) \in loadedIds
    /\ FieldId(0) \notin IdsOf(backendObject)
    /\ backendObject # <<>>

\* C12: "Add Example Value" raises exampleCounter by one and gives every
\* field, at every depth, one more slot: the empty string, after the slots
\* it had; the step has no state in between.
AddExampleRoundWhole ==
    [][AddExampleValueClick =>
          /\ exampleCounter' = exampleCounter + 1
          /\ Paths(backendObject') = Paths(backendObject)
          /\ \A q \in Paths(backendObject) :
                FieldAt(backendObject', q).exampleValues =
                    Append(FieldAt(backendObject, q).exampleValues, "")]_vars

\* C12 witness: a round was added to a tree with a nested field, and the
\* outer and the nested field both have the new empty slot.
AddExampleRoundWitness ==
    /\ last.op = "addExampleValueToAllFields"
    /\ \E q \in Paths(backendObject) : Len(q) = 2
    /\ exampleCounter = 1
    /\ \A f \in Fields : f.exampleValues = <<"">>

RECURSIVE AddRounds(_, _)
\* m calls of addExampleValueToAllFields in a row
AddRounds(st, m) ==
    IF m = 0 THEN st ELSE AddRounds(AddExampleValueToAllFields(st), m - 1)

RECURSIVE RemoveRounds(_, _)
\* k calls of removeExampleValueFromAllFields in a row
RemoveRounds(st, k) ==
    IF k = 0 THEN st ELSE RemoveRounds(RemoveExampleValueFromAllFields(st), k - 1)

RECURSIVE WithTrailing(_, _)
\* A mapping with n empty strings after the exampleValues of every field.
WithTrailing(m, n) ==
    [i \in 1..Len(m) |->
        [m[i] EXCEPT !.exampleValues = @ \o Empties(n),
                     !.nestedFields = WithTrailing(@, n)]]

\* C13: from any tree, m rounds added and then k <= m rounds removed leave
\* every field, at every depth, with the example values it had followed by
\* m - k empty strings, and exampleCounter m - k above what it was.
RemoveUndoesAdd ==
    \A m \in 0..MaxRounds : \A k \in 0..m :
        LET st == RemoveRounds(AddRounds(ThisMaker, m), k)
        IN  /\ st.exampleCounter = exampleCounter + (m - k)
            /\ st.backendObject = WithTrailing(backendObject, m - k)

\* C13 witness: a round was removed from a tree with a field nested under
\* an OBJECT field that holds a typed example value.
RemoveUndoesAddWitness ==
    /\ last.op = "removeExampleValueFromAllFields"
    /\ \E q \in Paths(backendObject) :
          /\ Len(q) = 2
          /\ FieldAt(backendObject, Parent(q)).type = "OBJECT"
          /\ FieldAt(backendObject, Parent(q)).exampleValues = <<"x">>

RECURSIVE StoredMaxLen(_)
\* The longest exampleValues array of a stored mapping, at any depth.
StoredMaxLen(s) ==
    IF s = <<>> THEN 0
    ELSE Max(Max(Len(Head(s).exampleValues.v),
                 StoredMaxLen(Head(s).nestedFields.v)),
             StoredMaxLen(Tail(s)))

RECURSIVE StoredExamples(_)
\* <<path, exampleValues>> of every field of a stored mapping.
StoredExamples(s) ==
    UNION {{<<(<<s[i].id>>), s[i].exampleValues.v>>}
              \cup {<<(<<s[i].id>>) \o e[1], e[2]>> :
                        e \in StoredExamples(s[i].nestedFields.v)}
           : i \in 1..Len(s)}

\* <<path, exampleValues>> of every field of the live tree m.
LiveExamples(m) == {<<q, FieldAt(m, q).exampleValues>> : q \in Paths(m)}

\* The editor st holds what the stored mapping s prescribes.
LoadedFrom(s, st) ==
    /\ st.exampleCounter = StoredMaxLen(s)
    /\ LiveExamples(st.backendObject) =
          {<<e[1], e[2] \o Empties(StoredMaxLen(s) - Len(e[2]))>> :
              e \in StoredExamples(s)}

\* C14: after a load that succeeds, exampleCounter is the length of the
\* longest stored exampleValues at any depth, whatever it was before; the
\* live tree has the stored fields and no others; every field holds its
\* stored example values followed by empty strings up to that length.
\* Stated for a load, from any reachable state, of every stored input and of
\* the object the save callback was handed.
LoadSetsCounterAndPads ==
    \A existingObject \in StoredInputs \cup {TrackerDefNow} :
        LET st == PopulateFromExistingObject(ThisMaker, existingObject).maker
        IN  ~st.threw => LoadedFrom(existingObject, st)

\* C14 witness: a schema was loaded into an editor that had been edited
\* before; the nested field, stored without example values, was filled up
\* to the one slot of the outer field.
LoadWitness ==
    /\ last = Report("populateFromExistingObject", "loaded", NoId)
    /\ edits > 0
    /\ exampleCounter = 1
    /\ \E q \in Paths(backendObject) :
          Len(q) = 2 /\ FieldAt(backendObject, q).exampleValues = <<"">>

\* C15: updateExampleValue with an index that is no slot of the field's
\* exampleValues leaves the length of every field's exampleValues as it was.
OutOfRangeKeepsLengths ==
    [][\A path \in Paths(backendObject), index \in (-1)..MaxIndex,
          value \in ExampleInputs :
          (/\ UpdateExampleValue(path, index, value)
           /\ ~(0 <= index /\ index < Len(FieldAt(backendObject, path).exampleValues)))
          => \A q \in Paths(backendObject) :
                Len(FieldAt(backendObject', q).exampleValues) =
                    Len(FieldAt(backendObject, q).exampleValues)]_vars

\* C16: every handler that changes the tree ends with the save callback
\* having been called with the tree as it is then.
SaveAfterEveryChange ==
    [][(backendObject' # backendObject /\ last'.op \notin Loads)
          => trackerDef' = Save(backendObject')]_vars

\* C17: removeField with an id that is no key of the mapping it is given
\* raises nothing and leaves the tree, fieldCounter and exampleCounter as
\* they were, so a second removal of the same id changes nothing more.
RemoveMissingIsNoOp ==
    [][last'.op = "removeField" =>
       \A parentPath \in {<<>>} \cup Paths(backendObject), confirmed \in BOOLEAN :
          (/\ RemoveField(parentPath, last'.id, confirmed)
           /\ ~HasKey(MapAt(backendObject, parentPath), last'.id))
          => /\ backendObject' = backendObject
             /\ fieldCounter' = fieldCounter
             /\ exampleCounter' = exampleCounter]_vars

\* C17 witness: a confirmed removal named a generated id that had been
\* removed before, while other fields were in the tree.
RemoveMissingWitness ==
    /\ last.op = "removeField"
    /\ last.ret = "absent"
    /\ last.id \in assigned
    /\ last.id \notin IdsOf(backendObject)
    /\ backendObject # <<>>

\* The step has put one new field, with the id it reports, into the mapping
\* at parentPath: empty name, prompt and default value, dynamic, no
\* children, one empty string per example round; the fields that were there
\* and exampleCounter are as before.
Created(parentPath) ==
    LET q == parentPath \o <<last'.id>>
    IN  /\ q \notin Paths(backendObject)
        /\ Paths(backendObject') = Paths(backendObject) \cup {q}
        /\ FieldAt(backendObject', q).name = ""
        /\ FieldAt(backendObject', q).prompt = ""
        /\ FieldAt(backendObject', q).defaultValue = ""
        /\ FieldAt(backendObject', q).isDynamic = TRUE
        /\ FieldAt(backendObject', q).nestedFields = <<>>
        /\ FieldAt(backendObject', q).exampleValues = Empties(exampleCounter)
        /\ \A p \in Paths(backendObject) :
              Flat(backendObject', p) = Flat(backendObject, p)
        /\ exampleCounter' = exampleCounter

\* C18: addField without data and without an id adds exactly one field, to
\* the root mapping ("Add Field") or to the nestedFields of the field whose
\* button was clicked, with the default attributes; nothing else changes.
\* (For a negative exampleCounter the fill loop runs zero times.)
CreateAddsOneDefaultField ==
    [][/\ last'.op = "addField" => (AddFieldClick => Created(<<>>))
       /\ last'.op = "addNestedField" =>
             \A path \in Paths(backendObject) :
                AddNestedFieldClick(path) => Created(path)]_vars

\* C18 witness: a field was added under a loaded field while one example
\* round was in place, and holds one empty example value.
CreateWitness ==
    /\ last.op = "addNestedField"
    /\ exampleCounter = 1
    /\ \E q \in Paths(backendObject) :
          /\ Len(q) = 2
          /\ Last(q) = last.id
          /\ FieldAt(backendObject, q).exampleValues = <<"">>

Attributes ==
    {"id", "name", "type", "isDynamic", "prompt", "defaultValue", "exampleValues"}

\* The step kept every field where it was, changed no attribute other than
\* attr of the field at path, and kept both counters.
OnlyChanged(path, attr) ==
    /\ Paths(backendObject') = Paths(backendObject)
    /\ \A q \in Paths(backendObject) : \A a \in Attributes :
          (q # path \/ a # attr) =>
              FieldAt(backendObject', q)[a] = FieldAt(backendObject, q)[a]
    /\ fieldCounter' = fieldCounter
    /\ exampleCounter' = exampleCounter

\* C19: selectFieldType, toggleStaticDynamic, updatePrompt,
\* updateDefaultValue and updateExampleValue with the index of a slot set
\* the one attribute (the one slot) of the one field to the value given;
\* the field's other attributes and children, all other fields and both
\* counters stay as they were.
MutatorsChangeOneAttribute ==
    [][\A path \in Paths(backendObject) :
          /\ last'.op = "selectFieldType" =>
                \A type \in TypeInputs :
                   FieldTypeChange(path, type) =>
                       /\ OnlyChanged(path, "type")
                       /\ FieldAt(backendObject', path).type = type
          /\ last'.op = "toggleStaticDynamic" =>
                \A checked \in BOOLEAN :
                   DynamicChange(path, checked) =>
                       /\ OnlyChanged(path, "isDynamic")
                       /\ FieldAt(backendObject', path).isDynamic = checked
          /\ last'.op = "updatePrompt" =>
                \A text \in TextInputs :
                   PromptInput(path, text) =>
                       /\ OnlyChanged(path, "prompt")
                       /\ FieldAt(backendObject', path).prompt = text
          /\ last'.op = "updateDefaultValue" =>
                \A text \in TextInputs :
                   DefaultValueInput(path, text) =>
                       /\ OnlyChanged(path, "defaultValue")
                       /\ FieldAt(backendObject', path).defaultValue = text
          /\ last'.op = "updateExampleValue" =>
                \A index \in 1..(MaxExamples + 1), value \in ExampleInputs :
                   ExampleValueInput(path, index, value) =>
                       /\ OnlyChanged(path, "exampleValues")
                       /\ FieldAt(backendObject', path).exampleValues =
                             [i \in 1..Len(FieldAt(backendObject, path).exampleValues)
                                 |-> IF i = index THEN value
                                     ELSE FieldAt(backendObject, path).exampleValues[i]]]_vars

\* C19 witness: the type of a field with a child was changed from a nesting
\* type to STRING, and the child is still there.
MutatorWitness ==
    /\ last.op = "selectFieldType"
    /\ \E q \in Paths(backendObject) :
          Len(q) = 2 /\ FieldAt(backendObject, Parent(q)).type = "STRING"

\* C20: the "Add Nested Field" button of a field shows exactly when the
\* field's type is one of NESTING_FIELD_TYPES.
NestedButtonFollowsType ==
    \A q \in Paths(backendObject) :
        q \in shown <=> FieldAt(backendObject, q).type \in NESTING_FIELD_TYPES

\* C23: a removal whose confirmation is declined leaves the field, the
\* fields below it, every other field, fieldCounter and exampleCounter as
\* they were.
DeclinedRemoveChangesNothing ==
    [][(last'.op = "removeField" /\ last'.ret = "declined") =>
       \A parentPath \in {<<>>} \cup Paths(backendObject) :
          RemoveField(parentPath, last'.id, FALSE) =>
             /\ backendObject' = backendObject
             /\ fieldCounter' = fieldCounter
             /\ exampleCounter' = exampleCounter]_vars

\* C23 witness: the removal of the loaded field "notes", which has a field
\* nested in it, was declined.
DeclinedRemoveWitness ==
    /\ last = Report("removeField", "declined", <<"notes">>)
    /\ \E q \in Paths(backendObject) : Len(q) = 2 /\ Head(q) = <<"notes">>

RECURSIVE OnlyPadded(_, _, _)
\* The stored mapping after differs from before at most in exampleValues
\* arrays shorter than n, which hold what they held followed by empty
\* strings up to n slots; fields, order and every other attribute agree.
OnlyPadded(before, after, n) ==
    /\ Len(after) = Len(before)
    /\ \A i \in 1..Len(before) :
          /\ DOMAIN after[i] = DOMAIN before[i]
          /\ \A a \in DOMAIN before[i] \ {"exampleValues", "nestedFields"} :
                after[i][a] = before[i][a]
          /\ Present(before[i], "exampleValues") =>
                \/ after[i].exampleValues = before[i].exampleValues
                \/ /\ before[i].exampleValues.t = "array"
                   /\ Len(before[i].exampleValues.v) < n
                   /\ after[i].exampleValues =
                         Arr(before[i].exampleValues.v
                                \o Empties(n - Len(before[i].exampleValues.v)))
          /\ Present(before[i], "nestedFields") =>
                IF before[i].nestedFields.t = "object"
                THEN /\ after[i].nestedFields.t = "object"
                     /\ OnlyPadded(before[i].nestedFields.v,
                                   after[i].nestedFields.v, n)
                ELSE after[i].nestedFields = before[i].nestedFields

RECURSIVE StoredIds(_)
\* The ids of a stored mapping, at every depth.
StoredIds(s) ==
    UNION {{s[i].id} \cup StoredIds(s[i].nestedFields.v) : i \in 1..Len(s)}

\* The numbers of the ids that carry one.
Numbers(ids) == {IdNum(id) : id \in ids} \ {NaN}

\* field-(M+1) for the largest number M among the ids, field-0 without one.
IdAfter(ids) ==
    IF Numbers(ids) = {} THEN FieldId(0)
    ELSE FieldId((CHOOSE n \in Numbers(ids) : \A k \in Numbers(ids) : k <= n) + 1)

\* C24: after a load that succeeds, the next id addField generates is
\* field-(M+1), M being the largest number carried by a loaded id at any
\* depth, and field-0 when no loaded id carries a number, whatever
\* fieldCounter was before the load.  Stated for a load, from any reachable
\* state, of every stored input and of the object the save callback was
\* handed.
LoadResetsFieldCounter ==
    \A existingObject \in StoredInputs \cup {TrackerDefNow} :
        LET st == PopulateFromExistingObject(ThisMaker, existingObject).maker
        IN  ~st.threw =>
               AddField(st, <<>>, EmptyData, NoId).fieldId =
                   IdAfter(StoredIds(existingObject))

\* C24 witness: field-1 was generated after a load whose only numbered id,
\* field-0, is nested under an id without a number.
LoadResetsFieldCounterWitness ==
    /\ last = Report("addField", "none", FieldId(1))
    /\ loadedIds = {<<"notes">>, FieldId(0)}
    /\ assigned = {FieldId(1)}
    /\ fieldCounter = 2

Invocations ==
    {running[i] : i \in 1..Len(running)} \cup
        (IF finished.handler = "none" THEN {} ELSE {finished})

Has(log, e) == \E k \in 1..Len(log) : log[k].e = e

\* C25: an invocation of one of the six handlers in which isEnabled()
\* resolved true has called releaseGeneration() when it returns, whatever
\* path it took.
ReleasedWhenEnabled ==
    (finished.handler # "none" /\ Has(finished.log, "isEnabled true"))
        => Has(finished.log, "releaseGeneration")

Snapshot(value) ==
    IF value = NoPreset THEN value
    ELSE [generationMode |-> value.generationMode, template |-> value.template,
          saved |-> value.saved]

\* C28: onPresetNewClick and onPresetRenameClick with a name that is a key
\* of presets, or with an empty or cancelled name, leave presets and
\* selectedPreset as they are; a preset that is there is replaced only by
\* onPresetSaveClick, under the selected name, or by an import whose
\* overwrite was confirmed.
NamesNeverOverwritten ==
    [][/\ \A name \in PromptedNames :
             (Taken(presets, name)
                 /\ (OnPresetNewClick(name) \/ OnPresetRenameClick(name)))
             => UNCHANGED <<presets, selectedPreset>>
       /\ \A i \in 1..Len(presets) :
             (/\ presets[i].value # NoPreset
              /\ presets[i].name \in KeySet(presets')
              /\ Snapshot(Get(presets', presets[i].name))
                     # Snapshot(presets[i].value))
             => \/ OnPresetSaveClick /\ presets[i].name = Key(selectedPreset)
                \/ OnPresetImportChange(TRUE)]_vars

\* C29: selectedPreset names a key of presets.
SelectedPresetIsAKey == selectedPreset \in KeySet(presets)

\* C30: a preset that onPresetSaveClick stored holds, as its tracker
\* definition, what the definition held when it was saved.
SavedPresetIsSnapshot ==
    \A i \in 1..Len(presets) :
        (presets[i].value # NoPreset /\ presets[i].value.by = "onPresetSaveClick")
            => Content(presets[i].value.trackerDef) = presets[i].value.saved

\* C31: once initSettings has run on settings without trackerDef, every
\* allowed key the prior settings held has its prior value, no other prior
\* key is left with its prior value at the top level (a key the defaults
\* know holds the default), and oldSettings is the prior settings; on
\* settings with trackerDef every prior key has its prior value and every
\* other key of the defaults has the default.
DefaultsOnlyForMissing ==
    initialised =>
        IF "trackerDef" \notin DOMAIN currentSettings
        THEN /\ \A key \in AllowedKeys \cap DOMAIN currentSettings :
                   extensionSettings[key] = currentSettings[key]
             /\ \A key \in DOMAIN currentSettings \ AllowedKeys :
                   key \in DOMAIN extensionSettings =>
                       /\ key \in DOMAIN defaultSettings
                       /\ extensionSettings[key] = defaultSettings[key]
             /\ oldSettings = [present |-> TRUE, value |-> currentSettings]
        ELSE /\ DOMAIN extensionSettings =
                   DOMAIN currentSettings \cup DOMAIN defaultSettings
             /\ \A key \in DOMAIN currentSettings :
                   extensionSettings[key] = currentSettings[key]
             /\ \A key \in DOMAIN defaultSettings \ DOMAIN currentSettings :
                   extensionSettings[key] = defaultSettings[key]

=============================================================================
